---- MODULE Spec2Model ----
(***************************************************************************)
(* Reasoning-based retrieval over document trees: ask_document.py and      *)
(* ask_multiple_docs.py.                                                   *)
(*                                                                         *)
(* Data representation.  A Python dict is a TLA+ record whose DOMAIN is    *)
(* the set of keys present; a Python list is a sequence; a Python str that *)
(* is formatted, sliced or tested for emptiness (title, summary, text,     *)
(* doc_description, doc_name, oracle free text) is a sequence of           *)
(* one-character strings; node ids are only ever compared and are opaque   *)
(* TLA+ strings.  None is the record None below.                           *)
(***************************************************************************)
EXTENDS Integers, Sequences, FiniteSets, TLC

VARIABLES
    prog,               \* which entry point this run executes
    pc,                 \* position of the run inside its entry point
    tree,               \* ask_document / find / remove_text: the input forest
    tree_in,            \* the forest as it was handed in (never assigned after Init)
    arg_id,             \* find_node_by_id: the node_id argument
    found,              \* ask_document.find_node_by_id return value
    found_multi,        \* ask_multiple_docs.find_node_by_id return value
    tree_without_text,  \* ask_document: remove_text(tree)
    multi_tree_without_text, \* search_single_doc: remove_text(tree)
    calls,              \* the oracle calls issued so far, each with its response
    error,              \* the exception that ended the run, "" when none
    node_list,          \* ask_document: search_json.get('node_list', [])
    relevant_texts,     \* ask_document: the extracted sections
    relevant_content,   \* the context handed to the answer prompt
    result,             \* the value the entry point returned
    docs,               \* ask_multiple_docs: the loaded documents
    docs_in,            \* the documents as load_all_trees returned them
    max_docs,           \* ask_multiple_docs: the max_docs argument
    cursor,             \* ask_multiple_docs: index of the next doc of the running loop
    selected_doc_names, \* ask_multiple_docs: selection_result.get('answer', [])
    all_relevant_content, \* ask_multiple_docs: the retrieved items
    context_parts,      \* ask_multiple_docs: the labelled sections of the context
    arg_node,           \* get_node_text: the node argument
    text_out,           \* ask_document.get_node_text return value
    multi_text_out      \* ask_multiple_docs.get_node_text return value

treeVars == <<tree, tree_in, arg_id, found, found_multi, tree_without_text,
              multi_tree_without_text>>
askVars == <<calls, error, node_list, relevant_texts, relevant_content, result>>
multiVars == <<docs, docs_in, max_docs, cursor, selected_doc_names, all_relevant_content,
               context_parts>>
textVars == <<arg_node, text_out, multi_text_out>>
vars == <<prog, pc, treeVars, askVars, multiVars, textVars>>

(***************************************************************************)
(* Bounds of the model.                                                    *)
(***************************************************************************)
MaxNodes == 3           \* nodes in a forest handed to find / remove_text

(***************************************************************************)
(* Python values.                                                          *)
(***************************************************************************)
None == [py_none |-> TRUE]

\* bool(x) for x a dict or None: None and the empty dict are falsy
truthy(x) == IF x = None THEN FALSE ELSE DOMAIN x # {}

Min(a, b) == IF a <= b THEN a ELSE b

\* d.get(k, default)
dict_get(d, k, default) == IF k \in DOMAIN d THEN d[k] ELSE default

\* the values of the variables an entry point does not use
AskIdle ==
    /\ calls = <<>>
    /\ error = ""
    /\ node_list = <<>>
    /\ relevant_texts = <<>>
    /\ relevant_content = <<>>
    /\ result = None

TextIdle ==
    /\ arg_node = None
    /\ text_out = <<>>
    /\ multi_text_out = <<>>

MultiIdle ==
    /\ docs = <<>>
    /\ docs_in = <<>>
    /\ max_docs = 0
    /\ cursor = 0
    /\ selected_doc_names = <<>>
    /\ all_relevant_content = <<>>
    /\ context_parts = <<>>

(***************************************************************************)
(* Forests: every forest with at most n nodes whose nodes carry one of the *)
(* key/value combinations in Attrs, each node with no `nodes` key or with  *)
(* a (possibly empty) list of children.                                    *)
(***************************************************************************)
RECURSIVE ForestSet(_, _)
RECURSIVE NodeSet(_, _)
NodeSet(k, Attrs) ==
    Attrs \cup { a @@ ("nodes" :> c) : a \in Attrs, c \in ForestSet(k - 1, Attrs) }

ForestSet(n, Attrs) ==
    IF n = 0 THEN { <<>> }
    ELSE { <<>> } \cup
         UNION { { <<node>> \o rest : node \in NodeSet(k, Attrs),
                                      rest \in ForestSet(n - k, Attrs) } : k \in 1..n }

(***************************************************************************)
(* find_node_by_id, ask_document.py.  The for loop is the recursion on     *)
(* Tail; `node.get('node_id') == node_id` is false when the key is absent  *)
(* (None never equals a string id).                                        *)
(***************************************************************************)
\* A plausible slip: the result of the search below a node is returned without
\* the `if found` test, so the siblings after a node with children are never tried.
RECURSIVE find_node_by_id_unchecked(_, _)
find_node_by_id_unchecked(node_id, nodes_list) ==
    IF nodes_list = <<>> THEN None
    ELSE LET node == Head(nodes_list) IN
         IF "node_id" \in DOMAIN node /\ node.node_id = node_id THEN node
         ELSE IF "nodes" \in DOMAIN node
              THEN find_node_by_id_unchecked(node_id, node.nodes)
              ELSE find_node_by_id_unchecked(node_id, Tail(nodes_list))

RECURSIVE find_node_by_id(_, _)
find_node_by_id(node_id, nodes_list) ==
    IF nodes_list = <<>> THEN None
    ELSE LET node == Head(nodes_list) IN
         IF "node_id" \in DOMAIN node /\ node.node_id = node_id THEN node
         ELSE LET sub == IF "nodes" \in DOMAIN node
                         THEN find_node_by_id(node_id, node.nodes)
                         ELSE None
              IN  IF truthy(sub) THEN sub
                  ELSE find_node_by_id(node_id, Tail(nodes_list))

\* isinstance(node, dict): the only non-dict list element of the model is None
isinstance_dict(node) == node # None

(***************************************************************************)
(* find_node_by_id, ask_multiple_docs.py: as above, skipping elements that *)
(* are not dicts.                                                          *)
(***************************************************************************)
RECURSIVE multi_find_node_by_id(_, _)
multi_find_node_by_id(node_id, nodes_list) ==
    IF nodes_list = <<>> THEN None
    ELSE LET node == Head(nodes_list) IN
         IF ~isinstance_dict(node)
         THEN multi_find_node_by_id(node_id, Tail(nodes_list))
         ELSE IF "node_id" \in DOMAIN node /\ node.node_id = node_id THEN node
         ELSE LET sub == IF "nodes" \in DOMAIN node
                         THEN multi_find_node_by_id(node_id, node.nodes)
                         ELSE None
              IN  IF truthy(sub) THEN sub
                  ELSE multi_find_node_by_id(node_id, Tail(nodes_list))

(***************************************************************************)
(* Specification SpecFind: find_node_by_id applied to every forest of at   *)
(* most MaxNodes nodes, ids possibly shared between nodes or absent.       *)
(***************************************************************************)
NodeIds == { "1", "2" }
QueryIds == NodeIds \cup { "99" }
FindTitles == { <<"A">>, <<"B">> }
FindAttrs == { [title |-> <<"A">>] } \cup
             { [node_id |-> i, title |-> t] : i \in NodeIds, t \in FindTitles }

InitFind ==
    /\ prog = "find_node_by_id"
    /\ pc = "called"
    /\ tree \in ForestSet(MaxNodes, FindAttrs)
    /\ tree_in = tree
    /\ arg_id \in QueryIds
    /\ found = None
    /\ found_multi = None
    /\ tree_without_text = <<>>
    /\ multi_tree_without_text = <<>>
    /\ AskIdle
    /\ TextIdle
    /\ MultiIdle

FindReturn ==
    /\ prog = "find_node_by_id"
    /\ pc = "called"
    /\ found' = find_node_by_id(arg_id, tree)
    /\ found_multi' = multi_find_node_by_id(arg_id, tree)
    /\ pc' = "returned"
    /\ UNCHANGED <<textVars, prog, tree, tree_in, arg_id, tree_without_text,
                   multi_tree_without_text, askVars, multiVars>>

NextFind == FindReturn

SpecFind == InitFind /\ [][NextFind]_vars

(***************************************************************************)
(* Depth-first preorder of a forest, written without early exit.           *)
(***************************************************************************)
RECURSIVE Preorder(_)
Preorder(forest) ==
    IF forest = <<>> THEN <<>>
    ELSE LET node == Head(forest) IN
         <<node>> \o (IF "nodes" \in DOMAIN node THEN Preorder(node.nodes) ELSE <<>>)
                  \o Preorder(Tail(forest))

HasId(node, id) == "node_id" \in DOMAIN node /\ node.node_id = id

FirstPreorderMatch(id, forest) ==
    LET p == Preorder(forest)
        hits == { i \in DOMAIN p : HasId(p[i], id) }
    IN  IF hits = {} THEN None
        ELSE p[CHOOSE i \in hits : \A j \in hits : i <= j]

\* C9: find_node_by_id returns the first node in depth-first preorder whose
\* node_id equals the id, None exactly when no node has that id, and the
\* single-document and multi-document implementations return the same node.
C9_FindFirstPreorder ==
    (prog = "find_node_by_id" /\ pc = "returned") =>
        /\ found = FirstPreorderMatch(arg_id, tree)
        /\ (found = None) <=> (\A i \in DOMAIN Preorder(tree) : ~HasId(Preorder(tree)[i], arg_id))
        /\ found_multi = found

\* C9 witness: the id is carried by two different nodes, the first of them
\* not the first node of the forest, and by a root; the call has returned the
\* first one in preorder.
C9_Witness ==
    /\ prog = "find_node_by_id" /\ pc = "returned"
    /\ \E i, j \in DOMAIN Preorder(tree) :
          /\ i < j /\ i > 1
          /\ HasId(Preorder(tree)[i], arg_id) /\ HasId(Preorder(tree)[j], arg_id)
          /\ Preorder(tree)[i] # Preorder(tree)[j]
          /\ found = Preorder(tree)[i]
    /\ \E r \in DOMAIN tree : HasId(tree[r], arg_id)

(***************************************************************************)
(* remove_text, ask_document.py and search_single_doc.  isinstance(obj, .) *)
(* is the type argument: the forest and the value under `nodes` are lists, *)
(* the elements of such a list are dicts, every other value is a str.      *)
(***************************************************************************)
type_of_value(k) == IF k = "nodes" THEN "list" ELSE "str"

\* A plausible slip: the values of a dict are copied without the recursive call,
\* so only the dicts the walk reaches through lists alone lose their `text`.
RECURSIVE remove_text_shallow(_, _)
remove_text_shallow(obj, type) ==
    IF type = "dict" THEN [k \in DOMAIN obj \ {"text"} |-> obj[k]]
    ELSE IF type = "list" THEN [i \in DOMAIN obj |-> remove_text_shallow(obj[i], "dict")]
    ELSE obj

RECURSIVE remove_text(_, _)
remove_text(obj, type) ==
    IF type = "dict"
    THEN [k \in DOMAIN obj \ {"text"} |-> remove_text(obj[k], type_of_value(k))]
    ELSE IF type = "list"
    THEN [i \in DOMAIN obj |-> remove_text(obj[i], "dict")]
    ELSE obj

RECURSIVE multi_remove_text(_, _)
multi_remove_text(obj, type) ==
    IF type = "dict"
    THEN [k \in DOMAIN obj \ {"text"} |-> multi_remove_text(obj[k], type_of_value(k))]
    ELSE IF type = "list"
    THEN [i \in DOMAIN obj |-> multi_remove_text(obj[i], "dict")]
    ELSE obj

(***************************************************************************)
(* Specification SpecPrune: remove_text applied to every forest of at most *)
(* MaxNodes nodes, then a lookup on the forest that was handed in.         *)
(***************************************************************************)
PruneAttrs ==
    { [title |-> << "A" >>],
      [title |-> << "A" >>, text |-> <<>>],
      [node_id |-> "1", title |-> << "B" >>],
      [node_id |-> "1", title |-> << "B" >>, text |-> << "x" >>] }

InitPrune ==
    /\ prog = "remove_text"
    /\ pc = "called"
    /\ tree \in ForestSet(MaxNodes, PruneAttrs)
    /\ tree_in = tree
    /\ arg_id = "1"
    /\ found = None
    /\ found_multi = None
    /\ tree_without_text = <<>>
    /\ multi_tree_without_text = <<>>
    /\ AskIdle
    /\ TextIdle
    /\ MultiIdle

\* tree_without_text = remove_text(tree): new dicts and lists are built, the
\* argument is not assigned to
PruneReturn ==
    /\ prog = "remove_text"
    /\ pc = "called"
    /\ tree_without_text' = remove_text(tree, "list")
    /\ multi_tree_without_text' = multi_remove_text(tree, "list")
    /\ pc' = "pruned"
    /\ UNCHANGED <<textVars, prog, tree, tree_in, arg_id, found, found_multi, askVars, multiVars>>

\* the extract loop's find_node_by_id(node_id, tree) after the pruning
PruneThenFind ==
    /\ prog = "remove_text"
    /\ pc = "pruned"
    /\ found' = find_node_by_id(arg_id, tree)
    /\ found_multi' = multi_find_node_by_id(arg_id, tree)
    /\ pc' = "returned"
    /\ UNCHANGED <<textVars, prog, tree, tree_in, arg_id, tree_without_text,
                   multi_tree_without_text, askVars, multiVars>>

NextPrune == PruneReturn \/ PruneThenFind

SpecPrune == InitPrune /\ [][NextPrune]_vars

\* the i-th node of before and of after agree on everything but `text`
SameButText(before, after) ==
    /\ DOMAIN after = DOMAIN before \ {"text"}
    /\ \A k \in DOMAIN after :
          IF k = "nodes" THEN Len(after[k]) = Len(before[k])
          ELSE after[k] = before[k]

PrunedOf(orig, pruned) ==
    LET p == Preorder(orig)
        q == Preorder(pruned)
    IN  /\ Len(pruned) = Len(orig)
        /\ Len(q) = Len(p)
        /\ \A i \in DOMAIN q : SameButText(p[i], q[i])

\* C10: remove_text returns a tree with no `text` key at any depth and with
\* every other key and value, the nesting, the node count and the child order
\* as in the input; the input is unmodified, so a later find_node_by_id on it
\* still returns nodes carrying their `text`.
C10_PruneRemovesOnlyText ==
    (prog = "remove_text" /\ pc \in {"pruned", "returned"}) =>
        /\ PrunedOf(tree_in, tree_without_text)
        /\ PrunedOf(tree_in, multi_tree_without_text)
        /\ tree = tree_in
        /\ pc = "returned" =>
              /\ found = FirstPreorderMatch(arg_id, tree_in)
              /\ found_multi = found

\* C10 witness: a child node and a root both carry non-empty text, the tree
\* has been pruned, and the later lookup returned a node with its text.
C10_Witness ==
    /\ prog = "remove_text" /\ pc = "returned"
    /\ \E r \in DOMAIN tree_in :
          /\ "text" \in DOMAIN tree_in[r] /\ tree_in[r].text # <<>>
          /\ "nodes" \in DOMAIN tree_in[r]
          /\ \E c \in DOMAIN tree_in[r].nodes : "text" \in DOMAIN tree_in[r].nodes[c]
    /\ tree_without_text # tree_in
    /\ found # None /\ "text" \in DOMAIN found /\ found.text # <<>>

(***************************************************************************)
(* Strings.  One sequence element per character; a character outside ASCII *)
(* is written by its code point.                                           *)
(***************************************************************************)
Untitled == << "U", "n", "t", "i", "t", "l", "e", "d" >>

\* "未找到相关内容", the value ask_document returns when nothing was extracted
NoContentMsg == << "u672A", "u627E", "u5230", "u76F8", "u5173", "u5185", "u5BB9" >>

\* sep.join(parts)
RECURSIVE join(_, _)
join(sep, parts) ==
    IF parts = <<>> THEN <<>>
    ELSE IF Len(parts) = 1 THEN parts[1]
    ELSE parts[1] \o sep \o join(sep, Tail(parts))

(***************************************************************************)
(* get_node_text (the two files hold the same code): text, else the title  *)
(* and summary formatted together, else the title.                         *)
(***************************************************************************)
\* A plausible slip: `text` is returned whenever the key is present, also
\* when it is empty, so an empty text hides the summary and the title.
get_node_text_key_only(node) ==
    IF "text" \in DOMAIN node THEN node.text
    ELSE IF "summary" \in DOMAIN node /\ node.summary # <<>>
    THEN << "u3010" >> \o dict_get(node, "title", Untitled) \o << "u3011", "\n" >>
         \o node.summary
    ELSE dict_get(node, "title", <<>>)

get_node_text(node) ==
    IF "text" \in DOMAIN node /\ node.text # <<>> THEN node.text
    ELSE IF "summary" \in DOMAIN node /\ node.summary # <<>>
    THEN << "u3010" >> \o dict_get(node, "title", Untitled) \o << "u3011", "\n" >>
         \o node.summary
    ELSE dict_get(node, "title", <<>>)

\* get_node_text, ask_multiple_docs.py lines 162-168
multi_get_node_text(node) ==
    IF "text" \in DOMAIN node /\ node.text # <<>> THEN node.text
    ELSE IF "summary" \in DOMAIN node /\ node.summary # <<>>
    THEN << "u3010" >> \o dict_get(node, "title", Untitled) \o << "u3011", "\n" >>
         \o node.summary
    ELSE dict_get(node, "title", <<>>)

(***************************************************************************)
(* The oracle, ChatGPT_API_async.  A call either raises (no response) or   *)
(* returns a text; for the rank and select calls the text is not JSON, is  *)
(* JSON of another type than object, or is a JSON object.                  *)
(***************************************************************************)
MaxNodeList == 2        \* ids in a node_list returned by the rank oracle

TransportError == [kind |-> "transport_error"]
NotJson == [kind |-> "text"]
JsonArray == [kind |-> "json", type |-> "list", value |-> <<>>]
JsonObject(v) == [kind |-> "json", type |-> "dict", value |-> v]

Thinking == << "t" >>

SeqsUpTo(S, n) == UNION { [1..k -> S] : k \in 0..n }

RankResponses ==
    { TransportError, NotJson, JsonArray, JsonObject([thinking |-> Thinking]) } \cup
    { JsonObject([thinking |-> Thinking, node_list |-> nl]) :
        nl \in SeqsUpTo(QueryIds, MaxNodeList) }

AnswerResponses ==
    { TransportError,
      [kind |-> "text", text |-> << "P", "a", "r", "i", "s" >>],
      [kind |-> "text", text |-> NoContentMsg] }

\* the exception raised between the await of a rank or select call and the
\* reading of its named field: the await itself, json.loads, or .get on a
\* value that is not a dict; "" when none is raised
structured_error(resp) ==
    IF resp.kind = "transport_error" THEN "OracleTransportError"
    ELSE IF resp.kind # "json" THEN "JSONDecodeError"
    ELSE IF resp.type # "dict" THEN "AttributeError"
    ELSE ""

(***************************************************************************)
(* ask_document, lines 80-87: the extract loop.                            *)
(***************************************************************************)
section_of(node, text) ==
    << "#", "#", " " >> \o dict_get(node, "title", Untitled) \o << "\n", "\n" >> \o text

\* A plausible slip: a section already extracted is not appended again.
RECURSIVE extract_texts_dedup(_, _)
extract_texts_dedup(ids, forest) ==
    IF ids = <<>> THEN <<>>
    ELSE LET node == find_node_by_id(Head(ids), forest)
             rest == extract_texts_dedup(SelectSeq(Tail(ids), LAMBDA i : i # Head(ids)), forest)
         IN  IF truthy(node) /\ get_node_text(node) # <<>>
             THEN << section_of(node, get_node_text(node)) >> \o rest
             ELSE rest

RECURSIVE extract_texts(_, _)
extract_texts(ids, forest) ==
    IF ids = <<>> THEN <<>>
    ELSE LET node == find_node_by_id(Head(ids), forest)
             rest == extract_texts(Tail(ids), forest)
         IN  IF truthy(node)
             THEN LET text == get_node_text(node)
                  IN  IF text # <<>> THEN << section_of(node, text) >> \o rest
                      ELSE rest
             ELSE rest

\* A plausible slip: the early return of line 91 is left out.
not_relevant_content_never(content) == FALSE

\* line 91: not relevant_content
not_relevant_content(content) == content = <<>>

(***************************************************************************)
(* ask_document.                                                           *)
(***************************************************************************)
AskMaxNodes == 2        \* nodes in the forest of an asked document

\* a section with text, under either id; one with a summary only; one that
\* resolves to nothing; one without node_id
AskAttrs ==
    { [node_id |-> "1", title |-> << "T" >>, text |-> << "x" >>],
      [node_id |-> "2", title |-> << "T" >>, text |-> << "x" >>],
      [node_id |-> "1", title |-> << "S" >>, text |-> <<>>, summary |-> << "s" >>],
      [node_id |-> "2", title |-> <<>>, text |-> <<>>],
      [title |-> << "N" >>, text |-> << "y" >>] }

InitAskDocument ==
    /\ prog = "ask_document"
    /\ pc = "called"
    /\ tree \in ForestSet(AskMaxNodes, AskAttrs)
    /\ tree_in = tree
    /\ arg_id = ""
    /\ found = None
    /\ found_multi = None
    /\ tree_without_text = <<>>
    /\ multi_tree_without_text = <<>>
    /\ AskIdle
    /\ TextIdle
    /\ MultiIdle

\* lines 44-92: prune, rank call, parse, extract, join, and the early return
AskSearch ==
    /\ prog = "ask_document"
    /\ pc = "called"
    /\ \E resp \in RankResponses :
          /\ tree_without_text' = remove_text(tree, "list")
          /\ calls' = Append(calls, [kind |-> "rank", doc |-> <<>>, response |-> resp])
          /\ IF structured_error(resp) # ""
             THEN /\ error' = structured_error(resp)
                  /\ pc' = "raised"
                  /\ UNCHANGED <<node_list, relevant_texts, relevant_content, result>>
             ELSE LET ids == dict_get(resp.value, "node_list", <<>>)
                      texts == extract_texts(ids, tree)
                      content == join(<< "\n", "\n" >>, texts)
                  IN  /\ node_list' = ids
                      /\ relevant_texts' = texts
                      /\ relevant_content' = content
                      /\ error' = error
                      /\ IF not_relevant_content(content)
                         THEN result' = NoContentMsg /\ pc' = "done"
                         ELSE result' = result /\ pc' = "synthesize"
    /\ UNCHANGED <<textVars, prog, tree, tree_in, arg_id, found, found_multi,
                   multi_tree_without_text, multiVars>>

\* lines 94-108: the answer call
AskSynthesize ==
    /\ prog = "ask_document"
    /\ pc = "synthesize"
    /\ \E resp \in AnswerResponses :
          /\ calls' = Append(calls, [kind |-> "synthesize", doc |-> <<>>, response |-> resp])
          /\ IF resp.kind = "transport_error"
             THEN error' = "OracleTransportError" /\ pc' = "raised" /\ result' = result
             ELSE error' = error /\ pc' = "done" /\ result' = resp.text
    /\ UNCHANGED <<textVars, prog, treeVars, node_list, relevant_texts, relevant_content, multiVars>>

(***************************************************************************)
(* ask_multiple_docs.                                                      *)
(***************************************************************************)
MaxDocs == 2            \* documents load_all_trees found
LongTextLen == 501      \* characters of the longest node text
PreviewBudget == 500    \* item['text'][:500]
DefaultMaxDocs == 3     \* --max_docs default

Whitespace == { " ", "\n", "\t" }

\* str.strip()
RECURSIVE lstrip(_)
lstrip(str) ==
    IF str # <<>> /\ Head(str) \in Whitespace THEN lstrip(Tail(str)) ELSE str

RECURSIVE rstrip(_)
rstrip(str) ==
    IF str # <<>> /\ str[Len(str)] \in Whitespace
    THEN rstrip(SubSeq(str, 1, Len(str) - 1))
    ELSE str

strip(str) == rstrip(lstrip(str))

\* A plausible slip: the slice is left out and the whole text is used.
slice_to_whole(str, n) == str

\* str[:n]
slice_to(str, n) == SubSeq(str, 1, Min(n, Len(str)))

Letters == << "A", "B", "C", "D" >>
DocName(i) == << "d", "o", "c", Letters[i] >>
UnknownDocName == << "d", "o", "c", "X" >>

LongText == [i \in 1..LongTextLen |-> IF i % 2 = 1 THEN "a" ELSE "b"]

\* the forest of the i-th loaded file: a text longer than the preview budget
\* and a node that resolves to nothing; a child with a summary only and a
\* text of exactly the preview budget; a single short section
MultiTrees ==
    << << [node_id |-> "1", title |-> << "L" >>, text |-> LongText],
          [node_id |-> "2", title |-> <<>>, text |-> <<>>] >>,
       << [title |-> << "S" >>,
           nodes |-> << [node_id |-> "2", text |-> <<>>, summary |-> << "s" >>] >>],
          [node_id |-> "1", title |-> << "E" >>,
           text |-> SubSeq(LongText, 1, PreviewBudget)] >>,
       << [node_id |-> "1", title |-> << "T" >>, text |-> << "x" >>] >>,
       << >> >>

\* load_all_trees: doc_name from the file name, doc_description '' when the
\* file holds none
LoadedDocs ==
    UNION { { [i \in 1..n |-> [doc_name |-> DocName(i), tree |-> MultiTrees[i],
                               doc_description |-> d[i]]] :
                d \in [1..n -> { <<>>, << "d" >> }] } : n \in 0..MaxDocs }

DescribeResponses ==
    { TransportError,
      [kind |-> "text", text |-> << " ", "\n" >>],
      [kind |-> "text", text |-> << " ", "d", "\n" >>] }

\* every selection of elements of a sequence, in the order of the sequence
RECURSIVE SubSeqs(_)
SubSeqs(seq) ==
    IF seq = <<>> THEN { <<>> }
    ELSE LET rest == SubSeqs(Tail(seq))
         IN  rest \cup { << Head(seq) >> \o r : r \in rest }

\* the names the selector may return: the loaded names and one that matches
\* no loaded document (lines 196-207 test the answer for emptiness and
\* membership only)
SelectableNames == << UnknownDocName >> \o [i \in 1..MaxDocs |-> DocName(i)]

SelectResponses ==
    { TransportError, NotJson, JsonArray, JsonObject([thinking |-> Thinking]) } \cup
    { JsonObject([thinking |-> Thinking, answer |-> names]) :
        names \in SubSeqs(SelectableNames) }

\* the rank responses for a document of MultiTrees: node lists with one id,
\* two ids against document order, a repeated id around an id no tree holds
MultiNodeLists ==
    { <<>>, << "1" >>, << "2" >>, << "2", "1" >>, << "1", "99", "1" >> }

MultiRankResponses ==
    { TransportError, NotJson, JsonArray, JsonObject([thinking |-> Thinking]) } \cup
    { JsonObject([thinking |-> Thinking, node_list |-> nl]) : nl \in MultiNodeLists }

Range(f) == { f[i] : i \in DOMAIN f }

InitAskMultipleDocs ==
    /\ prog = "ask_multiple_docs"
    /\ pc = "called"
    /\ tree = <<>>
    /\ tree_in = <<>>
    /\ arg_id = ""
    /\ found = None
    /\ found_multi = None
    /\ tree_without_text = <<>>
    /\ multi_tree_without_text = <<>>
    /\ AskIdle
    /\ TextIdle
    /\ docs \in LoadedDocs
    /\ docs_in = docs
    /\ max_docs \in { 1, DefaultMaxDocs }
    /\ cursor = 0
    /\ selected_doc_names = <<>>
    /\ all_relevant_content = <<>>
    /\ context_parts = <<>>

\* lines 176-180
MultiLoad ==
    /\ prog = "ask_multiple_docs"
    /\ pc = "called"
    /\ IF docs = <<>>
       THEN result' = None /\ pc' = "done" /\ cursor' = cursor
       ELSE result' = result /\ pc' = "describe" /\ cursor' = 1
    /\ UNCHANGED <<textVars, prog, treeVars, calls, error, node_list, relevant_texts,
                   relevant_content, docs, docs_in, max_docs, selected_doc_names,
                   all_relevant_content, context_parts>>

\* the first index from `from` on that is in S, 0 when none: the next
\* document for which the body of a `for doc in docs` loop reaches its await
first_from(from, S) ==
    LET T == { i \in S : i >= from }
    IN  IF T = {} THEN 0 ELSE CHOOSE i \in T : \A j \in T : i <= j

\* line 185: not doc.get('doc_description')
lacks_description(doc) == dict_get(doc, "doc_description", <<>>) = <<>>

\* A plausible slip: the test of line 207 is left out and every document is searched.
is_selected_always(doc, names) == TRUE

\* line 207: doc['doc_name'] in selected_doc_names
is_selected(doc, names) == doc.doc_name \in Range(names)

undescribed == { i \in DOMAIN docs : lacks_description(docs[i]) }

selected == { i \in DOMAIN docs : is_selected(docs[i], selected_doc_names) }

\* lines 184-187: one pass of the describe loop that reaches the await
MultiDescribe ==
    /\ prog = "ask_multiple_docs"
    /\ pc = "describe"
    /\ first_from(cursor, undescribed) # 0
    /\ LET i == first_from(cursor, undescribed) IN
       \E resp \in DescribeResponses :
          /\ calls' = Append(calls, [kind |-> "describe", doc |-> docs[i].doc_name,
                                     response |-> resp])
          /\ IF resp.kind = "transport_error"
             THEN /\ error' = "OracleTransportError"
                  /\ pc' = "raised"
                  /\ UNCHANGED <<docs, cursor>>
             ELSE /\ docs' = [docs EXCEPT ![i].doc_description = strip(resp.text)]
                  /\ cursor' = i + 1
                  /\ UNCHANGED <<error, pc>>
    /\ UNCHANGED <<textVars, prog, treeVars, node_list, relevant_texts, relevant_content, result,
                   docs_in, max_docs, selected_doc_names, all_relevant_content,
                   context_parts>>

\* lines 191-200: the select call once the describe loop has ended
MultiSelect ==
    /\ prog = "ask_multiple_docs"
    /\ pc = "describe"
    /\ first_from(cursor, undescribed) = 0
    /\ \E resp \in SelectResponses :
          /\ calls' = Append(calls, [kind |-> "select", doc |-> <<>>, response |-> resp])
          /\ IF structured_error(resp) # ""
             THEN /\ error' = structured_error(resp)
                  /\ pc' = "raised"
                  /\ UNCHANGED <<selected_doc_names, result, cursor>>
             ELSE LET names == dict_get(resp.value, "answer", <<>>)
                  IN  /\ selected_doc_names' = names
                      /\ error' = error
                      /\ IF names = <<>>
                         THEN result' = None /\ pc' = "done" /\ cursor' = cursor
                         ELSE result' = result /\ pc' = "search" /\ cursor' = 1
    /\ UNCHANGED <<textVars, prog, treeVars, node_list, relevant_texts, relevant_content,
                   docs, docs_in, max_docs, all_relevant_content, context_parts>>

\* lines 213-222: the extract loop
RECURSIVE extract_items(_, _)
extract_items(ids, doc) ==
    IF ids = <<>> THEN <<>>
    ELSE LET node == multi_find_node_by_id(Head(ids), doc.tree)
             rest == extract_items(Tail(ids), doc)
         IN  IF truthy(node)
             THEN LET text == multi_get_node_text(node)
                  IN  IF text # <<>>
                      THEN << [doc_name |-> doc.doc_name,
                               node_title |-> dict_get(node, "title", Untitled),
                               text |-> text] >> \o rest
                      ELSE rest
             ELSE rest

\* lines 206-222: one pass of the search loop that reaches the await
MultiSearch ==
    /\ prog = "ask_multiple_docs"
    /\ pc = "search"
    /\ first_from(cursor, selected) # 0
    /\ LET i == first_from(cursor, selected) IN
       \E resp \in MultiRankResponses :
          /\ multi_tree_without_text' = multi_remove_text(docs[i].tree, "list")
          /\ calls' = Append(calls, [kind |-> "rank", doc |-> docs[i].doc_name,
                                     response |-> resp])
          /\ IF structured_error(resp) # ""
             THEN /\ error' = structured_error(resp)
                  /\ pc' = "raised"
                  /\ UNCHANGED <<all_relevant_content, cursor>>
             ELSE /\ all_relevant_content' = all_relevant_content \o
                        extract_items(dict_get(resp.value, "node_list", <<>>), docs[i])
                  /\ cursor' = i + 1
                  /\ UNCHANGED <<error, pc>>
    /\ UNCHANGED <<textVars, prog, tree, tree_in, arg_id, found, found_multi, tree_without_text,
                   node_list, relevant_texts, relevant_content, result,
                   docs, docs_in, max_docs, selected_doc_names, context_parts>>

\* line 224: not all_relevant_content
not_all_relevant_content(items) == items = <<>>

\* lines 224-226: nothing was retrieved
MultiNoContent ==
    /\ prog = "ask_multiple_docs"
    /\ pc = "search"
    /\ first_from(cursor, selected) = 0
    /\ not_all_relevant_content(all_relevant_content)
    /\ result' = None
    /\ pc' = "done"
    /\ UNCHANGED <<textVars, prog, treeVars, calls, error, node_list, relevant_texts,
                   relevant_content, multiVars>>

\* line 234: the labelled section of one item
context_part(item) ==
    << "#", "#", "#", " ", "u6765", "u81EA", "u6587", "u6863", "u300A" >>
    \o item.doc_name \o << "u300B", "u7684", "u3010" >>
    \o item.node_title \o << "u3011", ":", "\n" >>
    \o slice_to(item.text, PreviewBudget) \o << ".", ".", "." >>

\* lines 229-251: the context, the answer call and the returned pair
MultiSynthesize ==
    /\ prog = "ask_multiple_docs"
    /\ pc = "search"
    /\ first_from(cursor, selected) = 0
    /\ ~not_all_relevant_content(all_relevant_content)
    /\ LET parts == [i \in DOMAIN all_relevant_content |->
                        context_part(all_relevant_content[i])]
       IN  /\ context_parts' = parts
           /\ relevant_content' = join(<< "\n", "\n" >>, parts)
    /\ \E resp \in AnswerResponses :
          /\ calls' = Append(calls, [kind |-> "synthesize", doc |-> <<>>, response |-> resp])
          /\ IF resp.kind = "transport_error"
             THEN error' = "OracleTransportError" /\ pc' = "raised" /\ result' = result
             ELSE /\ error' = error
                  /\ pc' = "done"
                  /\ result' = [answer |-> resp.text, sources |-> all_relevant_content]
    /\ UNCHANGED <<textVars, prog, treeVars, node_list, relevant_texts, docs, docs_in, max_docs,
                   cursor, selected_doc_names, all_relevant_content>>

(***************************************************************************)
(* Specification Spec: one run of ask_document or of ask_multiple_docs     *)
(* against every behaviour of the oracle.                                  *)
(***************************************************************************)
Init == InitAskDocument \/ InitAskMultipleDocs

Next ==
    \/ AskSearch
    \/ AskSynthesize
    \/ MultiLoad
    \/ MultiDescribe
    \/ MultiSelect
    \/ MultiSearch
    \/ MultiNoContent
    \/ MultiSynthesize

Spec == Init /\ [][Next]_vars

(***************************************************************************)
(* What the properties below are stated with: the oracle's responses as    *)
(* logged in calls, and the preorder characterisation of the lookup.       *)
(***************************************************************************)
IsObject(resp) == resp.kind = "json" /\ resp.type = "dict"

\* a parseable object carrying the named field
WellFormed(resp, field) == IsObject(resp) /\ field \in DOMAIN resp.value

CallsOf(kind) == { k \in DOMAIN calls : calls[k].kind = kind }

\* the ids of an oracle node_list that resolve to a node with non-empty text
Resolves(id, forest) ==
    LET n == FirstPreorderMatch(id, forest)
    IN  IF n = None THEN FALSE ELSE get_node_text(n) # <<>>

ResolvedIds(resp, forest) ==
    IF WellFormed(resp, "node_list")
    THEN SelectSeq(resp.value.node_list, LAMBDA id : Resolves(id, forest))
    ELSE <<>>

DocNamed(name) == docs_in[CHOOSE i \in DOMAIN docs_in : docs_in[i].doc_name = name]

ItemOf(id, doc) ==
    LET n == FirstPreorderMatch(id, doc.tree)
    IN  [doc_name |-> doc.doc_name,
         node_title |-> dict_get(n, "title", Untitled),
         text |-> get_node_text(n)]

\* the items the rank calls logged in cs should have produced, in call order
RECURSIVE ItemsOfCalls(_)
ItemsOfCalls(cs) ==
    IF cs = <<>> THEN <<>>
    ELSE LET c == Head(cs)
             mine == IF c.kind = "rank" /\ IsObject(c.response)
                     THEN LET ids == ResolvedIds(c.response, DocNamed(c.doc).tree)
                          IN  [k \in DOMAIN ids |-> ItemOf(ids[k], DocNamed(c.doc))]
                     ELSE <<>>
         IN  mine \o ItemsOfCalls(Tail(cs))

\* C1: the extract loop of ask_document and of ask_multiple_docs yields
\* exactly the entries of the oracle's node_list that resolve to a node with
\* non-empty text, in node_list order and with multiplicity; unresolved ids
\* raise nothing, and nothing resolving gives the empty sequence.
C1_RetrievalIsResolvedSubsequence ==
    /\ (prog = "ask_document" /\ calls # <<>> /\ IsObject(calls[1].response)) =>
          LET ids == ResolvedIds(calls[1].response, tree_in)
          IN  /\ Len(relevant_texts) = Len(ids)
              /\ \A k \in DOMAIN ids :
                    LET n == FirstPreorderMatch(ids[k], tree_in)
                    IN  relevant_texts[k] =
                            << "#", "#", " " >> \o dict_get(n, "title", Untitled)
                            \o << "\n", "\n" >> \o get_node_text(n)
    /\ prog = "ask_multiple_docs" => all_relevant_content = ItemsOfCalls(calls)
    /\ (prog \in {"ask_document", "ask_multiple_docs"} /\ pc = "raised") =>
          ~IsObject(calls[Len(calls)].response)

\* C1 witness: the oracle named a resolving id twice around an id no node
\* carries, and the document contributed the node twice.
C1_Witness ==
    /\ prog = "ask_multiple_docs"
    /\ \E k \in CallsOf("rank") :
          /\ WellFormed(calls[k].response, "node_list")
          /\ calls[k].response.value.node_list = << "1", "99", "1" >>
    /\ Len(all_relevant_content) = 2
    /\ all_relevant_content[1] = all_relevant_content[2]

\* the names the select oracle returned
OracleAnswer ==
    IF CallsOf("select") = {} THEN {}
    ELSE LET r == calls[CHOOSE k \in CallsOf("select") : TRUE].response
         IN  IF WellFormed(r, "answer") THEN Range(r.value.answer) ELSE {}

LoadedNames == { docs_in[i].doc_name : i \in DOMAIN docs_in }

\* C2: ask_multiple_docs ranks a document only if it is loaded and named by
\* the selector; a name matching no loaded document causes no rank call, no
\* item and no failure; a loaded document the selector did not name is
\* never ranked.
C2_RankOnlyLoadedAndSelected ==
    prog = "ask_multiple_docs" =>
        /\ \A k \in CallsOf("rank") :
              calls[k].doc \in LoadedNames /\ calls[k].doc \in OracleAnswer
        /\ \A i \in DOMAIN all_relevant_content :
              all_relevant_content[i].doc_name \in LoadedNames \cap OracleAnswer
        /\ pc = "raised" =>
              LET last == calls[Len(calls)].response
              IN  last.kind = "transport_error" \/ ~IsObject(last)

\* C2 witness: the selector named the second document and an unknown one;
\* the run ended with an answer after one rank call, on the second document.
C2_Witness ==
    /\ prog = "ask_multiple_docs" /\ pc = "done"
    /\ Len(docs_in) = 2
    /\ OracleAnswer = { UnknownDocName, DocName(2) }
    /\ CallsOf("rank") # {}
    /\ \A k \in CallsOf("rank") : calls[k].doc = DocName(2)
    /\ CallsOf("synthesize") # {}

Items == IF prog = "ask_document" THEN relevant_texts ELSE all_relevant_content

\* C3: the synthesize call is never issued on an empty sequence of
\* retrieved items, the run then ends in the no-relevant-content outcome;
\* on a non-empty sequence exactly one synthesize call is issued.
C3_NoSynthesisOnEmptyItems ==
    prog \in {"ask_document", "ask_multiple_docs"} =>
        /\ Cardinality(CallsOf("synthesize")) <= 1
        /\ CallsOf("synthesize") # {} => Items # <<>>
        /\ (pc = "done" /\ Items = <<>>) =>
              /\ CallsOf("synthesize") = {}
              /\ IF prog = "ask_document" THEN result = NoContentMsg ELSE result = None
        /\ (pc = "done" /\ Items # <<>>) => Cardinality(CallsOf("synthesize")) = 1

\* C3 witness: the oracle named ids, none resolved, and ask_document ended
\* without a synthesize call.
C3_Witness ==
    /\ prog = "ask_document" /\ pc = "done"
    /\ node_list # <<>>
    /\ relevant_texts = <<>>
    /\ Len(calls) = 1

\* C4: a rank or select response that is not a parseable object carrying
\* its named field (node_list, answer) is fatal: the run raises, it never
\* goes on as if the field were empty.
C4_MalformedResponseIsFatal ==
    \A k \in DOMAIN calls :
        /\ (calls[k].kind = "rank" /\ ~WellFormed(calls[k].response, "node_list"))
              => (pc = "raised" /\ k = Len(calls))
        /\ (calls[k].kind = "select" /\ ~WellFormed(calls[k].response, "answer"))
              => (pc = "raised" /\ k = Len(calls))

\* C5: select is issued at most once, after every describe call, and then
\* every loaded document has a non-empty doc_description whatever the
\* describe oracle returned; describe is called only for documents loaded
\* without a description, at most once each.
C5_SelectAfterAllDescribed ==
    prog = "ask_multiple_docs" =>
        /\ Cardinality(CallsOf("select")) <= 1
        /\ \A d \in CallsOf("describe") : \A sel \in CallsOf("select") : d < sel
        /\ CallsOf("select") # {} =>
              \A i \in DOMAIN docs : docs[i].doc_description # <<>>
        /\ \A d \in CallsOf("describe") :
              /\ \E i \in DOMAIN docs_in :
                    /\ docs_in[i].doc_name = calls[d].doc
                    /\ docs_in[i].doc_description = <<>>
              /\ \A e \in CallsOf("describe") : calls[e].doc = calls[d].doc => e = d

\* the characters of a context section after its label
TextPortion(part, item) ==
    LET label == 9 + Len(item.doc_name) + 3 + Len(item.node_title) + 3
    IN  SubSeq(part, label + 1, Len(part))

\* C6: in ask_multiple_docs the context holds, for every retrieved item,
\* the first 500 characters of its resolved text when that is longer, the
\* whole text otherwise, and no further character of it; the items
\* returned with the answer carry the untruncated text.
C6_ContextTruncatedItemsWhole ==
    (prog = "ask_multiple_docs" /\ CallsOf("synthesize") # {}) =>
        /\ Len(context_parts) = Len(all_relevant_content)
        /\ LET retrieved == ItemsOfCalls(calls)
           IN  /\ \A i \in DOMAIN context_parts :
                     LET text == retrieved[i].text
                         shown == TextPortion(context_parts[i], all_relevant_content[i])
                         n == IF Len(text) > 500 THEN 500 ELSE Len(text)
                     IN  /\ Len(shown) = n + 3
                         /\ SubSeq(shown, 1, n) = SubSeq(text, 1, n)
                         /\ SubSeq(shown, n + 1, n + 3) = << ".", ".", "." >>
               /\ pc = "done" => result.sources = retrieved

\* C6 witness: an answer was returned with an item of more than 500
\* characters, an item of exactly 500 and a shorter one.
C6_Witness ==
    /\ prog = "ask_multiple_docs" /\ pc = "done"
    /\ CallsOf("synthesize") # {}
    /\ \E i, j, k \in DOMAIN result.sources :
          /\ Len(result.sources[i].text) > 500
          /\ Len(result.sources[j].text) = 500
          /\ Len(result.sources[k].text) < 500

\* C7: the value returned when nothing was found is never a value a run
\* that synthesized an answer returns.
C7_NothingFoundDistinguishable ==
    (pc = "done" /\ CallsOf("synthesize") # {}) =>
        /\ prog = "ask_document" => result # NoContentMsg
        /\ prog = "ask_multiple_docs" => result # None

\* C8: ask_multiple_docs performs the rank call on at most max_docs
\* documents.
C8_RankAtMostMaxDocs ==
    prog = "ask_multiple_docs" => Cardinality(CallsOf("rank")) <= max_docs

(***************************************************************************)
(* Specification SpecText: get_node_text applied to every node whose text, *)
(* summary and title are each absent, empty or of up to MaxStrLen          *)
(* characters.                                                             *)
(***************************************************************************)
MaxStrLen == 2          \* characters of a text, summary or title

\* no key, or the key with a string of 0..MaxStrLen times the character c
OptionalStr(key, c) ==
    { [k \in {} |-> k] } \cup { (key :> [i \in 1..n |-> c]) : n \in 0..MaxStrLen }

TextNodes ==
    { t @@ sm @@ ti : t \in OptionalStr("text", "x"),
                      sm \in OptionalStr("summary", "s"),
                      ti \in OptionalStr("title", "t") }

InitText ==
    /\ prog = "get_node_text"
    /\ pc = "called"
    /\ tree = <<>>
    /\ tree_in = <<>>
    /\ arg_id = ""
    /\ found = None
    /\ found_multi = None
    /\ tree_without_text = <<>>
    /\ multi_tree_without_text = <<>>
    /\ AskIdle
    /\ MultiIdle
    /\ arg_node \in TextNodes
    /\ text_out = <<>>
    /\ multi_text_out = <<>>

TextReturn ==
    /\ prog = "get_node_text"
    /\ pc = "called"
    /\ text_out' = get_node_text(arg_node)
    /\ multi_text_out' = multi_get_node_text(arg_node)
    /\ pc' = "returned"
    /\ UNCHANGED <<prog, arg_node, treeVars, askVars, multiVars>>

NextText == TextReturn

SpecText == InitText /\ [][NextText]_vars

NonEmptyKey(node, key) == key \in DOMAIN node /\ node[key] # <<>>

\* sub occurs in str as a run of consecutive characters
Contains(str, sub) ==
    \E i \in 1..(Len(str) + 1) :
        /\ i + Len(sub) - 1 <= Len(str)
        /\ SubSeq(str, i, i + Len(sub) - 1) = sub

\* C11: get_node_text returns `text` unchanged whenever it is non-empty,
\* whatever the other fields; otherwise, with a non-empty `summary`, a
\* non-empty string containing both the title and the summary; otherwise
\* the title, which is the empty string when the title is absent or empty.
C11_TextFallbackChain ==
    (prog = "get_node_text" /\ pc = "returned") =>
        /\ NonEmptyKey(arg_node, "text") => text_out = arg_node.text
        /\ (~NonEmptyKey(arg_node, "text") /\ NonEmptyKey(arg_node, "summary")) =>
              /\ text_out # <<>>
              /\ Contains(text_out, arg_node.summary)
              /\ "title" \in DOMAIN arg_node => Contains(text_out, arg_node.title)
        /\ (~NonEmptyKey(arg_node, "text") /\ ~NonEmptyKey(arg_node, "summary")) =>
              /\ "title" \in DOMAIN arg_node => text_out = arg_node.title
              /\ ~NonEmptyKey(arg_node, "title") => text_out = <<>>
        /\ multi_text_out = text_out

\* C11 witness: the text is present but empty, the summary and the title
\* are not, and the returned string holds both and more than either.
C11_Witness ==
    /\ prog = "get_node_text" /\ pc = "returned"
    /\ "text" \in DOMAIN arg_node /\ arg_node.text = <<>>
    /\ NonEmptyKey(arg_node, "summary")
    /\ NonEmptyKey(arg_node, "title")
    /\ Contains(text_out, arg_node.summary)
    /\ Contains(text_out, arg_node.title)
    /\ Len(text_out) > Len(arg_node.summary) + Len(arg_node.title)
====
